---- MODULE Spec2Model ----
(***************************************************************************)
(* Pet House clinic server (src/src/supabase/functions/server/index.tsx)   *)
(* and the booking screen's slot code (AppointmentManagement.tsx).         *)
(*                                                                         *)
(* Time is counted in minutes since the epoch, in UTC.  A calendar date    *)
(* "YYYY-MM-DD" is its day number.  The key-value store is kept as one     *)
(* map per key family:                                                     *)
(*   user:<u>                 profiles      pet:<u>:<n>          pets      *)
(*   user:<u>:pets            petIdx        pet:<u>:<n>:records  recIdx    *)
(*   user:<u>:appointments    aptIdx        record:<petId>:<n>   recs      *)
(*   appointment:<n>          appts         block:<date>         blocks    *)
(*   user:<u>:dismissed_reminders   dismissed                            *)
(* `resp` is the latest response, `out` the body of the latest GET or the  *)
(* slot list the booking screen shows, `reqs` the handlers in flight.      *)
(* Record constructors list their fields in one fixed order throughout.    *)
(***************************************************************************)
EXTENDS Integers, Sequences, FiniteSets, TLC

\* ------------------------------------------------------------------ bounds
MaxAppts == 2
MaxPets == 2
MaxRecs == 1
MaxTicks == 1

\* ------------------------------------------------------- program constants
BufferMinutes == 30
MinutesPerDay == 1440
startHour == 9
endHour == 17

Now0 == 10 * MinutesPerDay + 8 * 60

Users == {"u1", "u2", "s1"}
Roles == {"owner", "staff", "admin"}
Statuses == {"pending", "approved", "completed", "cancelled"}

NoUser == "none"
NoId == -1
NoPet == <<>>
NoStr == ""

\* ---------------------------------------------------------- kv_store.tsx
Put(f, k, v) == [x \in (DOMAIN f) \cup {k} |-> IF x = k THEN v ELSE f[x]]

Del(f, k) == [x \in (DOMAIN f) \ {k} |-> f[x]]

Get(f, k, dflt) == IF k \in DOMAIN f THEN f[k] ELSE dflt

Values(f) == {f[k] : k \in DOMAIN f}

SeqToSet(s) == {s[i] : i \in 1..Len(s)}

\* mget: the stored values of the listed keys
MGet(f, keys) == {f[k] : k \in SeqToSet(keys) \cap DOMAIN f}

\* ------------------------------------------------------------------ dates
Abs(x) == IF x < 0 THEN -x ELSE x

\* new Date(iso).toISOString().slice(0,10): the UTC calendar date
IsoDate(t) == t \div MinutesPerDay

\* generateSlots(dateStr) in a browser whose local time is UTC + tz minutes:
\* new Date(dateStr + 'T00:00:00') is local midnight, setHours is local,
\* toISOString converts the slot back to UTC.
generateSlots(date, tz) ==
  {date * MinutesPerDay + h * 60 + m - tz : h \in startHour..(endHour - 1), m \in {0, 30}}

VARIABLES now, profiles, pets, petIdx, appts, aptIdx, blocks, recs, recIdx, resp,
          dismissed, out, reqs

vars == <<now, profiles, pets, petIdx, appts, aptIdx, blocks, recs, recIdx, resp,
          dismissed, out, reqs>>

IsStaff_anyProfile(u) == u \in DOMAIN profiles

IsStaff(u) == u \in DOMAIN profiles /\ profiles[u].role \in {"staff", "admin"}

Resp(op, code) == [op |-> op, code |-> code, apt |-> NoId, pet |-> {}]

\* `out` is the body of the latest response when that was a read, or the slot
\* list the booking screen generated last; NoOut after a write and before any
\* request
NoOut == [op |-> "none", actor |-> NoUser, at |-> 0, body |-> {}]

\* ---------------------------------------------------- requests in flight
\* `reqs` holds the handlers that run step by step, one per slot: where the
\* handler stands (pc), what it was called with (actor, arg), the key it made
\* from Date.now() (id), what its reads gave it (seenAppts, seenBlocks,
\* seenIdx, owner) and the status it answered (code, 0 until it answers)
Slots == {1, 2}

NoReq ==
  [op |-> "none", code |-> 0, actor |-> NoUser, pc |-> "idle", arg |-> <<>>, id |-> NoId,
   seenAppts |-> <<>>, seenBlocks |-> <<>>, seenIdx |-> <<>>, owner |-> NoUser]

NoReqs == [r \in Slots |-> NoReq]

\* number of ids held by the appointment index lists (one per creation)
RECURSIVE SumLen(_, _)
SumLen(f, S) ==
  IF S = {} THEN 0
  ELSE LET x == CHOOSE y \in S : TRUE IN Len(f[x]) + SumLen(f, S \ {x})

IndexedAppts == SumLen(aptIdx, DOMAIN aptIdx)

\* ------------------------------------------------------ POST /appointments
\* allAppointments.some(...): a stored, non-cancelled appointment closer than
\* the buffer
conflict_inclusive(t) ==
  \E k \in DOMAIN appts :
     /\ appts[k].status # "cancelled"
     /\ Abs(appts[k].dateTime - t) <= BufferMinutes

conflict_countsCancelled(t) ==
  \E k \in DOMAIN appts : Abs(appts[k].dateTime - t) < BufferMinutes

conflict(t) ==
  \E k \in DOMAIN appts :
     /\ appts[k].status # "cancelled"
     /\ Abs(appts[k].dateTime - t) < BufferMinutes

blocked(t) == \E d \in DOMAIN blocks : blocks[d].date = IsoDate(t)

\* the response code of POST /appointments for this actor and payload
CreateAppointmentCode(actor, p) ==
  IF blocked(p.dateTime) THEN 409
  ELSE IF conflict(p.dateTime) THEN 409
  ELSE IF IsStaff(actor) /\ p.petId # NoPet /\ p.petId \notin DOMAIN pets THEN 404
  ELSE 200

\* "Determine owner (userId) for the appointment"
appointmentUserId(actor, p) ==
  IF IsStaff(actor) /\ p.petId # NoPet /\ p.petId \in DOMAIN pets
  THEN pets[p.petId].ownerId
  ELSE actor

\* { id, userId, ...appointmentData, status: 'pending', ... }: the payload's
\* own id and userId fields overwrite the computed ones, status is forced
NewAppointment(actor, p) ==
  [id       |-> IF p.id # NoId THEN p.id ELSE now,
   status   |-> "pending",
   dateTime |-> p.dateTime,
   petId    |-> p.petId,
   userId   |-> IF p.userId # NoUser THEN p.userId ELSE appointmentUserId(actor, p)]

CreateAppointment(actor, p) ==
  LET code == CreateAppointmentCode(actor, p)
      owner == appointmentUserId(actor, p)
  IN /\ code = 200 => IndexedAppts < MaxAppts
     /\ IF code = 200
        THEN /\ appts' = Put(appts, now, NewAppointment(actor, p))
             /\ aptIdx' = Put(aptIdx, owner, Append(Get(aptIdx, owner, <<>>), now))
             /\ resp' = [Resp("createAppointment", 200) EXCEPT !.apt = now]
        ELSE /\ UNCHANGED <<appts, aptIdx>>
             /\ resp' = Resp("createAppointment", code)
     /\ UNCHANGED <<now, profiles, pets, petIdx, blocks, recs, recIdx, dismissed, reqs>>
     /\ out' = NoOut

\* ---------------------------------------------- PUT /appointments/:id
\* { ...appointment, ...updates }
MergeAppointment(a, u) ==
  [id       |-> IF u.id # NoId THEN u.id ELSE a.id,
   status   |-> IF u.status # NoStr THEN u.status ELSE a.status,
   dateTime |-> IF u.dateTime # NoId THEN u.dateTime ELSE a.dateTime,
   petId    |-> IF u.petId # NoPet THEN u.petId ELSE a.petId,
   userId   |-> IF u.userId # NoUser THEN u.userId ELSE a.userId]

\* profile.role on a missing profile throws and the catch answers 500
UpdateAppointmentCode(actor, id) ==
  IF id \notin DOMAIN appts THEN 404
  ELSE IF appts[id].userId = actor THEN 200
  ELSE IF actor \notin DOMAIN profiles THEN 500
  ELSE IF ~IsStaff(actor) THEN 403
  ELSE 200

UpdateAppointment(actor, id, u) ==
  LET code == UpdateAppointmentCode(actor, id)
  IN /\ IF code = 200
        THEN appts' = Put(appts, id, MergeAppointment(appts[id], u))
        ELSE UNCHANGED appts
     /\ resp' = [Resp("updateAppointment", code) EXCEPT !.apt = id]
     /\ UNCHANGED <<now, profiles, pets, petIdx, aptIdx, blocks, recs, recIdx, dismissed, reqs>>
     /\ out' = NoOut

\* ------------------------------------------------------------ POST /blocks
CreateBlock(actor, date) ==
  /\ IF IsStaff(actor)
     THEN /\ blocks' = Put(blocks, date, [date |-> date, id |-> date, createdBy |-> actor])
          /\ resp' = Resp("createBlock", 200)
     ELSE /\ UNCHANGED blocks
          /\ resp' = Resp("createBlock", 403)
  /\ UNCHANGED <<now, profiles, pets, petIdx, appts, aptIdx, recs, recIdx, dismissed, reqs>>
  /\ out' = NoOut

\* -------------------------------------------------- DELETE /blocks/:blockId
\* kv.del(blockId) deletes whatever key the path parameter names; key is
\* <<family, k>>
DeleteBlock(actor, key) ==
  /\ IF IsStaff(actor)
     THEN /\ blocks'   = IF key[1] = "block"       THEN Del(blocks, key[2])   ELSE blocks
          /\ appts'    = IF key[1] = "appointment" THEN Del(appts, key[2])    ELSE appts
          /\ pets'     = IF key[1] = "pet"         THEN Del(pets, key[2])     ELSE pets
          /\ recs'     = IF key[1] = "record"      THEN Del(recs, key[2])     ELSE recs
          /\ profiles' = IF key[1] = "user"        THEN Del(profiles, key[2]) ELSE profiles
          /\ petIdx'   = IF key[1] = "user:pets"   THEN Del(petIdx, key[2])   ELSE petIdx
          /\ aptIdx'   = IF key[1] = "user:appointments" THEN Del(aptIdx, key[2]) ELSE aptIdx
          /\ recIdx'   = IF key[1] = "pet:records" THEN Del(recIdx, key[2])   ELSE recIdx
          /\ dismissed' = IF key[1] = "user:dismissed_reminders"
                          THEN Del(dismissed, key[2]) ELSE dismissed
          /\ resp' = Resp("deleteBlock", 200)
     ELSE /\ UNCHANGED <<blocks, appts, pets, recs, profiles, petIdx, aptIdx, recIdx, dismissed>>
          /\ resp' = Resp("deleteBlock", 403)
  /\ UNCHANGED <<now, reqs>>
  /\ out' = NoOut

\* ------------------------------------------------------------- Date.now()
Tick ==
  /\ now < Now0 + MaxTicks
  /\ now' = now + 1
  /\ UNCHANGED <<profiles, pets, petIdx, appts, aptIdx, blocks, recs, recIdx, resp,
                 dismissed, out, reqs>>

\* ------------------------------------------------------------- POST /pets
\* String.prototype.toLowerCase on the strings the payloads use
toLowerCase(s) ==
  CASE s = "Rex" -> "rex"
    [] s = "REX" -> "rex"
    [] s = "Dog" -> "dog"
    [] s = "Lab" -> "lab"
    [] s = "A1"  -> "a1"
    [] OTHER -> s

\* the predicate of existingPets.find(...)
isDuplicate_chipIgnoringCase(p, petData) ==
  \/ /\ petData.microchipId # NoStr /\ p.microchipId # NoStr
     /\ toLowerCase(p.microchipId) = toLowerCase(petData.microchipId)
  \/ /\ toLowerCase(p.name) = toLowerCase(petData.name)
     /\ toLowerCase(p.species) = toLowerCase(petData.species)
     /\ toLowerCase(p.breed) = toLowerCase(petData.breed)
     /\ p.dateOfBirth = petData.dateOfBirth

isDuplicate(p, petData) ==
  \/ petData.microchipId # NoStr /\ p.microchipId # NoStr /\ p.microchipId = petData.microchipId
  \/ /\ toLowerCase(p.name) = toLowerCase(petData.name)
     /\ toLowerCase(p.species) = toLowerCase(petData.species)
     /\ toLowerCase(p.breed) = toLowerCase(petData.breed)
     /\ p.dateOfBirth = petData.dateOfBirth

\* kv.mget(userPets.petIds)
existingPets(actor) == MGet(pets, Get(petIdx, actor, <<>>))

duplicates(actor, petData) == {p \in existingPets(actor) : isDuplicate(p, petData)}

\* { id: petId, ownerId: user.id, ...petData, ... }
NewPet(actor, petData) ==
  [id          |-> IF petData.id # NoPet THEN petData.id ELSE <<actor, now>>,
   ownerId     |-> IF petData.ownerId # NoUser THEN petData.ownerId ELSE actor,
   microchipId |-> petData.microchipId,
   name        |-> petData.name,
   species     |-> petData.species,
   breed       |-> petData.breed,
   dateOfBirth |-> petData.dateOfBirth,
   nextVaccinationDate |-> petData.nextVaccinationDate]

CreatePet(actor, petData) ==
  LET petId == <<actor, now>>
      dups == duplicates(actor, petData)
  IN /\ IF dups # {}
        THEN /\ \E d \in dups : resp' = [Resp("createPet", 409) EXCEPT !.pet = {d}]
             /\ UNCHANGED <<pets, petIdx>>
        ELSE /\ Len(Get(petIdx, actor, <<>>)) < MaxPets
             /\ pets' = Put(pets, petId, NewPet(actor, petData))
             /\ petIdx' = Put(petIdx, actor, Append(Get(petIdx, actor, <<>>), petId))
             /\ resp' = [Resp("createPet", 200) EXCEPT !.pet = {NewPet(actor, petData)}]
     /\ UNCHANGED <<now, profiles, appts, aptIdx, blocks, recs, recIdx, dismissed, reqs>>
     /\ out' = NoOut

\* ------------------------------------------------------- PUT /pets/:petId
\* { ...pet, ...updates }
MergePet(p, u) ==
  [id          |-> IF u.id # NoPet THEN u.id ELSE p.id,
   ownerId     |-> IF u.ownerId # NoUser THEN u.ownerId ELSE p.ownerId,
   microchipId |-> IF u.microchipId # NoStr THEN u.microchipId ELSE p.microchipId,
   name        |-> IF u.name # NoStr THEN u.name ELSE p.name,
   species     |-> IF u.species # NoStr THEN u.species ELSE p.species,
   breed       |-> IF u.breed # NoStr THEN u.breed ELSE p.breed,
   dateOfBirth |-> IF u.dateOfBirth # NoStr THEN u.dateOfBirth ELSE p.dateOfBirth,
   nextVaccinationDate |-> IF u.nextVaccinationDate # NoId THEN u.nextVaccinationDate
                           ELSE p.nextVaccinationDate]

\* "Check ownership or staff role", shared by PUT and DELETE /pets/:petId
PetAccessCode(actor, petId) ==
  IF petId \notin DOMAIN pets THEN 404
  ELSE IF pets[petId].ownerId = actor THEN 200
  ELSE IF actor \notin DOMAIN profiles THEN 500
  ELSE IF ~IsStaff(actor) THEN 403
  ELSE 200

UpdatePet(actor, petId, u) ==
  LET code == PetAccessCode(actor, petId)
  IN /\ IF code = 200
        THEN /\ pets' = Put(pets, petId, MergePet(pets[petId], u))
             /\ resp' = [Resp("updatePet", 200) EXCEPT !.pet = {MergePet(pets[petId], u)}]
        ELSE /\ UNCHANGED pets
             /\ resp' = Resp("updatePet", code)
     /\ UNCHANGED <<now, profiles, petIdx, appts, aptIdx, blocks, recs, recIdx, dismissed, reqs>>
     /\ out' = NoOut

\* ---------------------------------------------------- DELETE /pets/:petId
Remove(s, x) == SelectSeq(s, LAMBDA y : y # x)

DeletePet(actor, petId) ==
  LET code == PetAccessCode(actor, petId)
  IN /\ IF code = 200
        THEN LET ownerPetsKey == pets[petId].ownerId
             IN /\ pets' = Del(pets, petId)
                /\ petIdx' = Put(petIdx, ownerPetsKey,
                                 Remove(Get(petIdx, ownerPetsKey, <<>>), petId))
        ELSE UNCHANGED <<pets, petIdx>>
     /\ resp' = Resp("deletePet", code)
     /\ UNCHANGED <<now, profiles, appts, aptIdx, blocks, recs, recIdx, dismissed, reqs>>
     /\ out' = NoOut

\* --------------------------------------------------- POST /health-records
\* no lookup of the pet, no role check
CreateHealthRecord(actor, recordData) ==
  LET recordId == <<recordData.petId, now>>
  IN /\ SumLen(recIdx, DOMAIN recIdx) < MaxRecs
     /\ recs' = Put(recs, recordId,
                    [id |-> recordId, petId |-> recordData.petId, addedBy |-> actor])
     /\ recIdx' = Put(recIdx, recordData.petId,
                      Append(Get(recIdx, recordData.petId, <<>>), recordId))
     /\ resp' = Resp("createHealthRecord", 200)
     /\ UNCHANGED <<now, profiles, pets, petIdx, appts, aptIdx, blocks, dismissed, reqs>>
     /\ out' = NoOut

\* --------------------------------------------------------- GET /reminders
\* Math.ceil(a / b) for b > 0
Ceil(a, b) == -((-a) \div b)

daysUntil(t, at) == Ceil(t - at, MinutesPerDay)

\* the reminder id of an appointment: apt.id already reads "appointment:<n>"
appointmentHash(apt) == <<"appointment", apt.id>>

\* `vaccination:${pet.id}:${pet.nextVaccinationDate}`
vaccinationHash(pet) == <<"vaccination", pet.id, pet.nextVaccinationDate>>

\* the reminder one appointment of the caller's list gives at time `at`
AppointmentReminder_eightDays(apt, at, dismissedHashes) ==
  IF /\ apt.status = "pending"
     /\ daysUntil(apt.dateTime, at) <= 8
     /\ daysUntil(apt.dateTime, at) >= 0
     /\ appointmentHash(apt) \notin dismissedHashes
  THEN {[id |-> appointmentHash(apt), dateTime |-> apt.dateTime, petId |-> apt.petId,
         type |-> "appointment", appointmentId |-> apt.id,
         priority |-> IF daysUntil(apt.dateTime, at) <= 1 THEN "high" ELSE "medium"]}
  ELSE {}

AppointmentReminder(apt, at, dismissedHashes) ==
  IF /\ apt.status = "pending"
     /\ daysUntil(apt.dateTime, at) <= 7
     /\ daysUntil(apt.dateTime, at) >= 0
     /\ appointmentHash(apt) \notin dismissedHashes
  THEN {[id |-> appointmentHash(apt), dateTime |-> apt.dateTime, petId |-> apt.petId,
         type |-> "appointment", appointmentId |-> apt.id,
         priority |-> IF daysUntil(apt.dateTime, at) <= 1 THEN "high" ELSE "medium"]}
  ELSE {}

\* the reminder one pet of the caller's list gives at time `at`
VaccinationReminder_overdueOnly(pet, at, dismissedHashes) ==
  IF /\ pet.nextVaccinationDate # NoId
     /\ daysUntil(pet.nextVaccinationDate, at) <= 14
     /\ daysUntil(pet.nextVaccinationDate, at) >= -7
     /\ vaccinationHash(pet) \notin dismissedHashes
  THEN {[id |-> vaccinationHash(pet), dateTime |-> pet.nextVaccinationDate,
         petId |-> pet.id, type |-> "vaccination",
         appointmentId |-> NoId,
         priority |-> IF daysUntil(pet.nextVaccinationDate, at) < 0
                      THEN "high" ELSE "medium"]}
  ELSE {}

VaccinationReminder(pet, at, dismissedHashes) ==
  IF /\ pet.nextVaccinationDate # NoId
     /\ daysUntil(pet.nextVaccinationDate, at) <= 14
     /\ daysUntil(pet.nextVaccinationDate, at) >= -7
     /\ vaccinationHash(pet) \notin dismissedHashes
  THEN {[id |-> vaccinationHash(pet), dateTime |-> pet.nextVaccinationDate,
         petId |-> pet.id, type |-> "vaccination",
         appointmentId |-> NoId,
         priority |-> IF daysUntil(pet.nextVaccinationDate, at) <= 0
                      THEN "high" ELSE "medium"]}
  ELSE {}

\* kv.get(`user:${user.id}:dismissed_reminders`) || { hashes: [] }
dismissedOf_none(user) == {}

dismissedOf(user) == Get(dismissed, user, {})

\* the appointment part of the reminder list
getAppointmentReminders(user, at) ==
  UNION {AppointmentReminder(a, at, dismissedOf(user)) :
           a \in MGet(appts, Get(aptIdx, user, <<>>))}

getVaccinationReminders(user, at) ==
  UNION {VaccinationReminder(p, at, dismissedOf(user)) :
           p \in MGet(pets, Get(petIdx, user, <<>>))}

getReminders(user, at) == getAppointmentReminders(user, at) \cup getVaccinationReminders(user, at)

\* a read answers without writing: the body goes to `out`
Answer(op, actor, code, body) ==
  /\ resp' = Resp(op, code)
  /\ out' = [op |-> op, actor |-> actor, at |-> now, body |-> body]
  /\ UNCHANGED <<now, profiles, pets, petIdx, appts, aptIdx, blocks, recs, recIdx, dismissed, reqs>>

\* a variant that records what it has shown as dismissed
GetReminders_marksSeen(actor) ==
  /\ resp' = Resp("getReminders", 200)
  /\ out' = [op |-> "getReminders", actor |-> actor, at |-> now,
             body |-> getReminders(actor, now)]
  /\ dismissed' = Put(dismissed, actor,
                      dismissedOf(actor) \cup {r.id : r \in getReminders(actor, now)})
  /\ UNCHANGED <<now, profiles, pets, petIdx, appts, aptIdx, blocks, recs, recIdx, reqs>>

GetReminders(actor) == Answer("getReminders", actor, 200, getReminders(actor, now))

\* ------------------------------------------------------------- GET routes
\* the body of a refusal carries no record
NoBody == {}

\* GET /pets
ListPets(actor) == Answer("listPets", actor, 200, existingPets(actor))

\* kv.getByPrefix('pet:'): every key that begins with "pet:", the pet records
\* pet:<u>:<n> and the record lists pet:<u>:<n>:records; a row is told by its key
allPets ==
  {<<"pet", k>> : k \in DOMAIN pets} \cup {<<"pet:records", k>> : k \in DOMAIN recIdx}

\* GET /pets/all
ListAllPets(actor) ==
  IF IsStaff(actor)
  THEN Answer("listAllPets", actor, 200, allPets)
  ELSE Answer("listAllPets", actor, 403, NoBody)

\* GET /appointments
ListAppointments(actor) ==
  Answer("listAppointments", actor, 200, MGet(appts, Get(aptIdx, actor, <<>>)))

\* GET /appointments/all
ListAllAppointments(actor) ==
  IF IsStaff(actor)
  THEN Answer("listAllAppointments", actor, 200, Values(appts))
  ELSE Answer("listAllAppointments", actor, 403, NoBody)

\* GET /blocks
ListBlocks(actor) ==
  IF IsStaff(actor)
  THEN Answer("listBlocks", actor, 200, Values(blocks))
  ELSE Answer("listBlocks", actor, 403, NoBody)

\* GET /health-records/:petId
GetHealthRecords(actor, petId) ==
  LET code == PetAccessCode(actor, petId)
  IN IF code = 200
     THEN Answer("getHealthRecords", actor, 200, MGet(recs, Get(recIdx, petId, <<>>)))
     ELSE Answer("getHealthRecords", actor, code, NoBody)

\* --------------------------------------------------- GET /dashboard/stats
\* new Date(t).setHours(0, 0, 0, 0) on a server whose local time is UTC + tz
\* minutes: the local midnight at or before t
today(t, tz) == ((t + tz) \div MinutesPerDay) * MinutesPerDay - tz

weekAgo_rolling(at, tz) == at - 7 * MinutesPerDay

weekAgo(at, tz) == today(at, tz) - 7 * MinutesPerDay

todayAppointments(at, tz) ==
  {k \in DOMAIN appts : today(appts[k].dateTime, tz) = today(at, tz)}

weekAppointments(at, tz) ==
  {k \in DOMAIN appts : appts[k].dateTime >= weekAgo(at, tz) /\ appts[k].dateTime <= at}

missedAppointments(at) ==
  {k \in DOMAIN appts : appts[k].status = "pending" /\ appts[k].dateTime < at}

\* a record list has no nextVaccinationDate and is filtered out
vaccinationsDue(at) ==
  {k \in DOMAIN pets :
     /\ pets[k].nextVaccinationDate # NoId
     /\ daysUntil(pets[k].nextVaccinationDate, at) <= 14
     /\ daysUntil(pets[k].nextVaccinationDate, at) >= -7}

stats(at, tz) ==
  [todayAppointments     |-> Cardinality(todayAppointments(at, tz)),
   weekAppointments      |-> Cardinality(weekAppointments(at, tz)),
   missedAppointments    |-> Cardinality(missedAppointments(at)),
   vaccinationsDue       |-> Cardinality(vaccinationsDue(at)),
   totalPets             |-> Cardinality(allPets),
   totalClients          |-> Cardinality({u \in DOMAIN profiles : profiles[u].role = "owner"}),
   pendingAppointments   |-> Cardinality({k \in DOMAIN appts : appts[k].status = "pending"}),
   completedAppointments |-> Cardinality({k \in DOMAIN appts : appts[k].status = "completed"})]

GetDashboardStats(actor, tz) ==
  IF IsStaff(actor)
  THEN Answer("getDashboardStats", actor, 200, stats(now, tz))
  ELSE Answer("getDashboardStats", actor, 403, NoBody)

\* ============================== AppointmentManagement.tsx, the booking screen
\* fetchData: a client whose role is owner fetches GET /appointments and never
\* GET /blocks, so its blocks stay []; any other client fetches
\* GET /appointments/all and GET /blocks. The data is what a fetch returns now.
clientAppointments(actor) ==
  IF IsStaff(actor) THEN Values(appts) ELSE MGet(appts, Get(aptIdx, actor, <<>>))

clientBlocks(actor) == IF IsStaff(actor) THEN Values(blocks) ELSE {}

isSlotAvailable(actor, iso) ==
  IF \E b \in clientBlocks(actor) : b.date = IsoDate(iso)
  THEN FALSE
  ELSE ~ \E apt \in clientAppointments(actor) :
            /\ apt.status # "cancelled"
            /\ Abs(apt.dateTime - iso) < 30

\* the screen lists generateSlots(selectedDate) in a browser at UTC + tz
GenerateSlots(date, tz) ==
  /\ out' = [op |-> "generateSlots", actor |-> NoUser, at |-> date,
             body |-> generateSlots(date, tz)]
  /\ UNCHANGED <<now, profiles, pets, petIdx, appts, aptIdx, blocks, recs, recIdx, resp,
                 dismissed, reqs>>

\* handleSubmit: the slot picked from the list is posted as dateTime
BookSlot(actor, p) ==
  /\ out.op = "generateSlots"
  /\ p.dateTime \in out.body
  /\ CreateAppointment(actor, p)

\* ============================================== handlers, one await a step
\* Each `await kv...` of a handler is a step of its own, so that two requests
\* interleave and a failing store call ends the handler in its catch.
Goto(r, pc) == [reqs EXCEPT ![r].pc = pc]

\* return c.json(..., code)
Finish(r, code) == [reqs EXCEPT ![r].pc = "done", ![r].code = code]

Begin(r, op, pc, actor, arg, id) ==
  /\ reqs[r].pc \in {"idle", "done"}
  /\ reqs' = [reqs EXCEPT ![r] = [NoReq EXCEPT !.op = op, !.pc = pc, !.actor = actor,
                                                !.arg = arg, !.id = id]]
  /\ UNCHANGED <<now, profiles, pets, petIdx, appts, aptIdx, blocks, recs, recIdx, resp,
                 dismissed, out>>

\* a step that only reads
ReadOnly ==
  UNCHANGED <<now, profiles, pets, petIdx, appts, aptIdx, blocks, recs, recIdx, resp,
              dismissed, out>>

At(r, op, pc) == reqs[r].op = op /\ reqs[r].pc = pc

\* a store call of the handler in slot r throws: the catch answers 500 and
\* the call has written nothing
KvFail(r) ==
  /\ reqs[r].pc \notin {"idle", "done"}
  /\ reqs' = Finish(r, 500)
  /\ ReadOnly

\* ---------------------------------------------- POST /appointments, by step
conflictIn(all, t) ==
  \E k \in DOMAIN all :
     /\ all[k].status # "cancelled"
     /\ Abs(all[k].dateTime - t) < BufferMinutes

blockedIn(bs, t) == \E d \in DOMAIN bs : bs[d].date = IsoDate(t)

\* const appointmentId = `appointment:${Date.now()}`
AptStart(r, actor, p) ==
  /\ IndexedAppts < MaxAppts
  /\ Begin(r, "createAppointment", "scanAppointments", actor, p, now)

\* allAppointments = await kv.getByPrefix('appointment:')
AptScanAppointments(r) ==
  /\ At(r, "createAppointment", "scanAppointments")
  /\ reqs' = [reqs EXCEPT ![r].seenAppts = appts, ![r].pc = "scanBlocks"]
  /\ ReadOnly

\* allBlocks = await kv.getByPrefix('block:'), then the two 409 answers
AptScanBlocks(r) ==
  /\ At(r, "createAppointment", "scanBlocks")
  /\ reqs' = IF \/ blockedIn(blocks, reqs[r].arg.dateTime)
                \/ conflictIn(reqs[r].seenAppts, reqs[r].arg.dateTime)
             THEN [reqs EXCEPT ![r].seenBlocks = blocks, ![r].pc = "done", ![r].code = 409]
             ELSE [reqs EXCEPT ![r].seenBlocks = blocks, ![r].pc = "getProfile"]
  /\ ReadOnly

\* creatorProfile = await kv.get(`user:${user.id}`)
AptGetProfile(r) ==
  /\ At(r, "createAppointment", "getProfile")
  /\ reqs' = IF IsStaff(reqs[r].actor) /\ reqs[r].arg.petId # NoPet
             THEN Goto(r, "getPet")
             ELSE [reqs EXCEPT ![r].owner = reqs[r].actor, ![r].pc = "setRecord"]
  /\ ReadOnly

\* pet = await kv.get(appointmentData.petId)
AptGetPet(r) ==
  /\ At(r, "createAppointment", "getPet")
  /\ reqs' = IF reqs[r].arg.petId \notin DOMAIN pets
             THEN Finish(r, 404)
             ELSE [reqs EXCEPT ![r].owner = pets[reqs[r].arg.petId].ownerId,
                               ![r].pc = "setRecord"]
  /\ ReadOnly

\* the record the handler has built from what it read
AptRecord(q) ==
  [id       |-> IF q.arg.id # NoId THEN q.arg.id ELSE q.id,
   status   |-> "pending",
   dateTime |-> q.arg.dateTime,
   petId    |-> q.arg.petId,
   userId   |-> IF q.arg.userId # NoUser THEN q.arg.userId ELSE q.owner]

\* a variant that scans again and refuses just before it writes
AptSetRecord_rechecks(r) ==
  /\ At(r, "createAppointment", "setRecord")
  /\ IF conflictIn(appts, reqs[r].arg.dateTime)
     THEN appts' = appts /\ reqs' = Finish(r, 409)
     ELSE /\ appts' = Put(appts, reqs[r].id, AptRecord(reqs[r]))
          /\ reqs' = Goto(r, "getIndex")
  /\ UNCHANGED <<now, profiles, pets, petIdx, aptIdx, blocks, recs, recIdx, resp,
                 dismissed, out>>

\* await kv.set(appointmentId, appointment)
AptSetRecord(r) ==
  /\ At(r, "createAppointment", "setRecord")
  /\ appts' = Put(appts, reqs[r].id, AptRecord(reqs[r]))
  /\ reqs' = Goto(r, "getIndex")
  /\ UNCHANGED <<now, profiles, pets, petIdx, aptIdx, blocks, recs, recIdx, resp,
                 dismissed, out>>

\* userAppointments = await kv.get(`user:${appointmentUserId}:appointments`)
AptGetIndex(r) ==
  /\ At(r, "createAppointment", "getIndex")
  /\ reqs' = [reqs EXCEPT ![r].seenIdx = Get(aptIdx, reqs[r].owner, <<>>),
                          ![r].pc = "setIndex"]
  /\ ReadOnly

\* a variant that appends to the list as it is when it writes
AptSetIndex_appendsToCurrent(r) ==
  /\ At(r, "createAppointment", "setIndex")
  /\ aptIdx' = Put(aptIdx, reqs[r].owner,
                   Append(Get(aptIdx, reqs[r].owner, <<>>), reqs[r].id))
  /\ reqs' = Finish(r, 200)
  /\ UNCHANGED <<now, profiles, pets, petIdx, appts, blocks, recs, recIdx, resp,
                 dismissed, out>>

\* push, await kv.set(...), return c.json({ appointment })
AptSetIndex(r) ==
  /\ At(r, "createAppointment", "setIndex")
  /\ aptIdx' = Put(aptIdx, reqs[r].owner, Append(reqs[r].seenIdx, reqs[r].id))
  /\ reqs' = Finish(r, 200)
  /\ UNCHANGED <<now, profiles, pets, petIdx, appts, blocks, recs, recIdx, resp,
                 dismissed, out>>

\* ------------------------------------------------------ POST /pets, by step
\* const petId = `pet:${user.id}:${Date.now()}`
PetStart(r, actor, petData) ==
  /\ Len(Get(petIdx, actor, <<>>)) < MaxPets
  /\ Begin(r, "createPet", "getIndex", actor, petData, <<actor, now>>)

\* userPets = await kv.get(`user:${user.id}:pets`)
PetGetIndex(r) ==
  /\ At(r, "createPet", "getIndex")
  /\ reqs' = [reqs EXCEPT ![r].seenIdx = Get(petIdx, reqs[r].actor, <<>>), ![r].pc = "mget"]
  /\ ReadOnly

\* existingPets = await kv.mget(userPets.petIds), then the duplicate answer
PetMGet(r) ==
  /\ At(r, "createPet", "mget")
  /\ reqs' = IF \E e \in MGet(pets, reqs[r].seenIdx) : isDuplicate(e, reqs[r].arg)
             THEN Finish(r, 409)
             ELSE Goto(r, "setRecord")
  /\ ReadOnly

PetRecord(q) ==
  [id          |-> IF q.arg.id # NoPet THEN q.arg.id ELSE q.id,
   ownerId     |-> IF q.arg.ownerId # NoUser THEN q.arg.ownerId ELSE q.actor,
   microchipId |-> q.arg.microchipId,
   name        |-> q.arg.name,
   species     |-> q.arg.species,
   breed       |-> q.arg.breed,
   dateOfBirth |-> q.arg.dateOfBirth,
   nextVaccinationDate |-> q.arg.nextVaccinationDate]

\* await kv.set(petId, pet)
PetSetRecord(r) ==
  /\ At(r, "createPet", "setRecord")
  /\ pets' = Put(pets, reqs[r].id, PetRecord(reqs[r]))
  /\ reqs' = Goto(r, "getIndexAfter")
  /\ UNCHANGED <<now, profiles, petIdx, appts, aptIdx, blocks, recs, recIdx, resp,
                 dismissed, out>>

\* userPetsAfter = await kv.get(`user:${user.id}:pets`)
PetGetIndexAfter(r) ==
  /\ At(r, "createPet", "getIndexAfter")
  /\ reqs' = [reqs EXCEPT ![r].seenIdx = Get(petIdx, reqs[r].actor, <<>>),
                          ![r].pc = "setIndex"]
  /\ ReadOnly

\* push, await kv.set(...), return c.json({ pet })
PetSetIndex(r) ==
  /\ At(r, "createPet", "setIndex")
  /\ petIdx' = Put(petIdx, reqs[r].actor, Append(reqs[r].seenIdx, reqs[r].id))
  /\ reqs' = Finish(r, 200)
  /\ UNCHANGED <<now, profiles, pets, appts, aptIdx, blocks, recs, recIdx, resp,
                 dismissed, out>>

\* -------------------------------------------- POST /health-records, by step
\* const recordId = `record:${recordData.petId}:${Date.now()}`
RecStart(r, actor, recordData) ==
  /\ SumLen(recIdx, DOMAIN recIdx) < MaxRecs
  /\ Begin(r, "createHealthRecord", "setRecord", actor, recordData,
           <<recordData.petId, now>>)

\* await kv.set(recordId, record)
RecSetRecord(r) ==
  /\ At(r, "createHealthRecord", "setRecord")
  /\ recs' = Put(recs, reqs[r].id,
                 [id |-> reqs[r].id, petId |-> reqs[r].arg.petId, addedBy |-> reqs[r].actor])
  /\ reqs' = Goto(r, "getIndex")
  /\ UNCHANGED <<now, profiles, pets, petIdx, appts, aptIdx, blocks, recIdx, resp,
                 dismissed, out>>

\* petRecords = await kv.get(`${recordData.petId}:records`)
RecGetIndex(r) ==
  /\ At(r, "createHealthRecord", "getIndex")
  /\ reqs' = [reqs EXCEPT ![r].seenIdx = Get(recIdx, reqs[r].arg.petId, <<>>),
                          ![r].pc = "setIndex"]
  /\ ReadOnly

\* push, await kv.set(...), return c.json({ record })
RecSetIndex(r) ==
  /\ At(r, "createHealthRecord", "setIndex")
  /\ recIdx' = Put(recIdx, reqs[r].arg.petId, Append(reqs[r].seenIdx, reqs[r].id))
  /\ reqs' = Finish(r, 200)
  /\ UNCHANGED <<now, profiles, pets, petIdx, appts, aptIdx, blocks, recs, resp,
                 dismissed, out>>

\* --------------------------------------------- DELETE /pets/:petId, by step
DelStart(r, actor, petId) == Begin(r, "deletePet", "getPet", actor, petId, NoId)

\* pet = await kv.get(petId)
DelGetPet(r) ==
  /\ At(r, "deletePet", "getPet")
  /\ reqs' = IF reqs[r].arg \notin DOMAIN pets
             THEN Finish(r, 404)
             ELSE [reqs EXCEPT ![r].owner = pets[reqs[r].arg].ownerId, ![r].pc = "getProfile"]
  /\ ReadOnly

\* profile = await kv.get(`user:${user.id}`), then the 403 answer
DelGetProfile(r) ==
  /\ At(r, "deletePet", "getProfile")
  /\ reqs' = IF reqs[r].owner = reqs[r].actor THEN Goto(r, "delRecord")
             ELSE IF reqs[r].actor \notin DOMAIN profiles THEN Finish(r, 500)
             ELSE IF ~IsStaff(reqs[r].actor) THEN Finish(r, 403)
             ELSE Goto(r, "delRecord")
  /\ ReadOnly

\* await kv.del(petId)
DelRecord(r) ==
  /\ At(r, "deletePet", "delRecord")
  /\ pets' = Del(pets, reqs[r].arg)
  /\ reqs' = Goto(r, "getIndex")
  /\ UNCHANGED <<now, profiles, petIdx, appts, aptIdx, blocks, recs, recIdx, resp,
                 dismissed, out>>

\* ownerPets = await kv.get(ownerPetsKey)
DelGetIndex(r) ==
  /\ At(r, "deletePet", "getIndex")
  /\ reqs' = [reqs EXCEPT ![r].seenIdx = Get(petIdx, reqs[r].owner, <<>>),
                          ![r].pc = "setIndex"]
  /\ ReadOnly

\* filter, await kv.set(ownerPetsKey, ownerPets), return c.json({ deleted })
DelSetIndex(r) ==
  /\ At(r, "deletePet", "setIndex")
  /\ petIdx' = Put(petIdx, reqs[r].owner, Remove(reqs[r].seenIdx, reqs[r].arg))
  /\ reqs' = Finish(r, 200)
  /\ UNCHANGED <<now, profiles, pets, appts, aptIdx, blocks, recs, recIdx, resp,
                 dismissed, out>>

\* ------------------------------------------------------------ state space
Staff == "s1"

\* accounts made by /signup: two owners and one staff member
Init ==
  /\ now = Now0
  /\ profiles = [u \in Users |-> [role |-> IF u = Staff THEN "staff" ELSE "owner"]]
  /\ pets = <<>>
  /\ petIdx = <<>>
  /\ appts = <<>>
  /\ aptIdx = <<>>
  /\ blocks = <<>>
  /\ recs = <<>>
  /\ recIdx = <<>>
  /\ resp = Resp("none", 0)
  /\ dismissed = <<>>
  /\ out = NoOut
  /\ reqs = NoReqs

\* a clinic in which u1 and u2 have each registered one pet earlier
P1 == <<"u1", Now0 - 2>>
P2 == <<"u2", Now0 - 1>>
PGone == <<"u2", Now0 - 3>>

PetOf(key, nm) ==
  [id |-> key, ownerId |-> key[1], microchipId |-> NoStr, name |-> nm, species |-> "dog",
   breed |-> "lab", dateOfBirth |-> "2020-01-01", nextVaccinationDate |-> NoId]

InitClinic ==
  /\ now = Now0
  /\ profiles = [u \in Users |-> [role |-> IF u = Staff THEN "staff" ELSE "owner"]]
  /\ pets = (P1 :> PetOf(P1, "Rex")) @@ (P2 :> PetOf(P2, "Max"))
  /\ petIdx = ("u1" :> <<P1>>) @@ ("u2" :> <<P2>>)
  /\ appts = <<>>
  /\ aptIdx = <<>>
  /\ blocks = <<>>
  /\ recs = <<>>
  /\ recIdx = <<>>
  /\ resp = Resp("none", 0)
  /\ dismissed = <<>>
  /\ out = NoOut
  /\ reqs = NoReqs

ApptIds == Now0..(Now0 + MaxTicks)

\* ---- booking: times around one slot, a past time, and UTC midnight
T1 == Now0 + 60
TPast == Now0 - 60
TMidnight == 11 * MinutesPerDay
BookingTimes == {TPast, T1, T1 + 15, T1 + BufferMinutes, TMidnight}
BlockDates == {10}
TimeZones == {-480, 0, 480}

ApptPayload(pet, t, uid) == [id |-> NoId, dateTime |-> t, petId |-> pet, userId |-> uid]

ApptUpdate(st, t, uid) ==
  [id |-> NoId, status |-> st, dateTime |-> t, petId |-> NoPet, userId |-> uid]

BookingPayloads == {ApptPayload(P1, t, NoUser) : t \in BookingTimes}

BookingUpdates ==
  {ApptUpdate(st, NoId, NoUser) : st \in {"pending", "cancelled"}}
    \cup {ApptUpdate(NoStr, T1 + 15, NoUser)}

BookingActors == {"u1", Staff}

NextBooking ==
  \/ Tick
  \/ \E a \in BookingActors, id \in ApptIds, u \in BookingUpdates : UpdateAppointment(a, id, u)
  \/ \E a \in BookingActors, p \in BookingPayloads : CreateAppointment(a, p)
  \/ \E a \in BookingActors, d \in BlockDates : CreateBlock(a, d)
  \/ \E a \in BookingActors, d \in BlockDates : DeleteBlock(a, <<"block", d>>)
  \/ \E a \in BookingActors, id \in ApptIds : DeleteBlock(a, <<"appointment", id>>)

SpecBooking == InitClinic /\ [][NextBooking]_vars

\* ---- ownership: staff and owners book for two pets, payloads may carry userId
OwnershipPayloads ==
  {ApptPayload(pet, t, uid) : pet \in {P1, P2}, t \in {T1, TMidnight}, uid \in {NoUser, "u2"}}

OwnershipUpdates == {ApptUpdate(NoStr, NoId, "u2"), ApptUpdate("approved", NoId, NoUser)}

NextOwnership ==
  \/ Tick
  \/ \E a \in BookingActors, p \in OwnershipPayloads : CreateAppointment(a, p)
  \/ \E a \in BookingActors, id \in ApptIds, u \in OwnershipUpdates : UpdateAppointment(a, id, u)

SpecOwnership == InitClinic /\ [][NextOwnership]_vars

\* ---- pets: owners register pets, owner or staff edit and delete them
PetData(nm, sp, br, dob, chip) ==
  [id |-> NoPet, ownerId |-> NoUser, microchipId |-> chip, name |-> nm, species |-> sp,
   breed |-> br, dateOfBirth |-> dob, nextVaccinationDate |-> NoId]

BasePet == PetData("Rex", "dog", "lab", "2020-01-01", "A1")

PetPayloads ==
  {BasePet,
   PetData("REX", "Dog", "Lab", "2020-01-01", NoStr),
   PetData("Max", "cat", "pug", "2021-01-01", "A1"),
   PetData("Max", "cat", "pug", "2021-01-01", "a1"),
   PetData("Rex", "dog", "lab", "2021-01-01", NoStr),
   PetData("Rex", "cat", "lab", "2020-01-01", NoStr),
   PetData("Rex", "dog", "pug", "2020-01-01", NoStr),
   PetData("Max", "dog", "lab", "2020-01-01", NoStr)}

PetUpdates ==
  {[id |-> NoPet, ownerId |-> "u2", microchipId |-> NoStr, name |-> NoStr, species |-> NoStr,
    breed |-> NoStr, dateOfBirth |-> NoStr, nextVaccinationDate |-> NoId]}

PetKeys == {<<u, n>> : u \in {"u1", "u2"}, n \in ApptIds}

NextPets ==
  \/ Tick
  \/ \E pd \in PetPayloads : CreatePet("u1", pd)
  \/ CreatePet("u2", BasePet)
  \/ \E a \in BookingActors, k \in PetKeys, u \in PetUpdates : UpdatePet(a, k, u)
  \/ \E a \in BookingActors, k \in PetKeys : DeletePet(a, k)
  \/ \E a \in BookingActors, k \in DOMAIN pets : CreateHealthRecord(a, [petId |-> k])

SpecPets == Init /\ [][NextPets]_vars

\* ---- registration: pets are registered and removed, nothing else
NextRegister ==
  \/ Tick
  \/ \E pd \in PetPayloads : CreatePet("u1", pd)
  \/ CreatePet("u2", BasePet)
  \/ \E a \in BookingActors, k \in PetKeys : DeletePet(a, k)

SpecRegister == Init /\ [][NextRegister]_vars

\* ---- reminders: u1 books for its pet, sets the vaccination date, approves;
\* u1 and u2 read their reminders.  No route writes a dismissed list, so the
\* list u1 may hold from before is part of the initial state.
Day == MinutesPerDay

ReminderTimes == {Now0 + 8 * Day, Now0 + 7 * Day + 1, Now0 + Day, Now0 + Day + 1, Now0 - Day + 1}

VacTimes ==
  {Now0 + 15 * Day, Now0 + 14 * Day, Now0 + 14 * Day + 1, Now0 - 8 * Day,
   Now0 - 8 * Day + 1, Now0 - Day, Now0 + 1}

VacDismissed == Now0 + 14 * Day

DismissedLists ==
  {<<>>, "u1" :> {<<"appointment", Now0>>, <<"vaccination", P1, VacDismissed>>}}

VacUpdate(t) ==
  [id |-> NoPet, ownerId |-> NoUser, microchipId |-> NoStr, name |-> NoStr, species |-> NoStr,
   breed |-> NoStr, dateOfBirth |-> NoStr, nextVaccinationDate |-> t]

InitReminders ==
  /\ now = Now0
  /\ profiles = [u \in Users |-> [role |-> IF u = Staff THEN "staff" ELSE "owner"]]
  /\ pets = (P1 :> PetOf(P1, "Rex")) @@ (P2 :> PetOf(P2, "Max"))
  /\ petIdx = ("u1" :> <<P1>>) @@ ("u2" :> <<P2>>)
  /\ appts = <<>>
  /\ aptIdx = <<>>
  /\ blocks = <<>>
  /\ recs = <<>>
  /\ recIdx = <<>>
  /\ resp = Resp("none", 0)
  /\ dismissed \in DismissedLists
  /\ out = NoOut
  /\ reqs = NoReqs

NextReminders ==
  \/ Tick
  \/ \E t \in ReminderTimes : CreateAppointment("u1", ApptPayload(P1, t, NoUser))
  \/ \E id \in ApptIds : UpdateAppointment("u1", id, ApptUpdate("approved", NoId, NoUser))
  \/ \E t \in VacTimes : UpdatePet("u1", P1, VacUpdate(t))
  \/ \E a \in {"u1", "u2"} : GetReminders(a)

SpecReminders == InitReminders /\ [][NextReminders]_vars

\* ---- pet lookup: owners and staff book for a stored pet and for a pet id
\* that names no record
LookupActors == {"u1", "u2", Staff}

LookupPayloads == {ApptPayload(pet, t, NoUser) : pet \in {P1, PGone}, t \in {T1, T1 + 60, TMidnight}}

NextLookup ==
  \/ Tick
  \/ \E a \in LookupActors, p \in LookupPayloads : CreateAppointment(a, p)

SpecLookup == InitClinic /\ [][NextLookup]_vars

\* ---- access: u1 books, every account tries to change the appointment; the
\* staff member removes an appointment or a profile key through the block route
AccessUpdates == {ApptUpdate("approved", NoId, NoUser), ApptUpdate("no-show", NoId, NoUser)}

NextAccess ==
  \/ Tick
  \/ \E t \in {T1, TMidnight} : CreateAppointment("u1", ApptPayload(P1, t, NoUser))
  \/ \E a \in LookupActors, id \in ApptIds, u \in AccessUpdates : UpdateAppointment(a, id, u)
  \/ \E id \in ApptIds : DeleteBlock(Staff, <<"appointment", id>>)
  \/ DeleteBlock(Staff, <<"user", "u2">>)

SpecAccess == InitClinic /\ [][NextAccess]_vars

\* ---- dashboard: u1 books around the start of the week window, the staff
\* member and u1 ask for the statistics
WeekTimes ==
  {Now0 - 7 * Day, Now0 - 7 * Day - 60, 3 * Day, 3 * Day - 1, Now0 - Day, Now0 + 1}

NextDashboard ==
  \/ Tick
  \/ \E t \in WeekTimes : CreateAppointment("u1", ApptPayload(P1, t, NoUser))
  \/ \E a \in BookingActors, tz \in TimeZones : GetDashboardStats(a, tz)

SpecDashboard == InitClinic /\ [][NextDashboard]_vars

\* ---- inventory: pets come and go, a health record is added, the staff
\* member and u1 ask for the list of all pets and for the statistics
NextInventory ==
  \/ Tick
  \/ CreatePet("u1", BasePet)
  \/ \E a \in BookingActors, k \in PetKeys \cup {P1, P2} : DeletePet(a, k)
  \/ \E a \in BookingActors, k \in {P1, P2} : CreateHealthRecord(a, [petId |-> k])
  \/ \E a \in BookingActors : ListAllPets(a)
  \/ \E a \in BookingActors : GetDashboardStats(a, 0)

SpecInventory == InitClinic /\ [][NextInventory]_vars

\* ---- reads: a small clinic is filled by a booking, a block and a health
\* record; an owner and the staff member call the GET routes
NextReads ==
  \/ Tick
  \/ CreateAppointment("u1", ApptPayload(P1, T1, NoUser))
  \/ CreateBlock(Staff, 11)
  \/ CreateHealthRecord("u1", [petId |-> P1])
  \/ \E a \in BookingActors : ListPets(a)
  \/ \E a \in BookingActors : ListAppointments(a)
  \/ \E a \in BookingActors : ListBlocks(a)
  \/ \E a \in BookingActors : GetHealthRecords(a, P1)
  \/ \E a \in BookingActors : GetReminders(a)
  \/ \E a \in BookingActors : GetDashboardStats(a, 0)

SpecReads == InitClinic /\ [][NextReads]_vars

\* ---- staff only: every account, one of them after its profile key was
\* removed, calls the routes that ask for a staff or admin role
NextStaffOnly ==
  \/ Tick
  \/ CreateAppointment("u1", ApptPayload(P1, T1, NoUser))
  \/ DeleteBlock(Staff, <<"user", "u2">>)
  \/ \E a \in LookupActors : CreateBlock(a, 11)
  \/ \E a \in LookupActors : DeleteBlock(a, <<"block", 11>>)
  \/ \E a \in LookupActors : ListAllPets(a)
  \/ \E a \in LookupActors : ListAllAppointments(a)
  \/ \E a \in LookupActors : ListBlocks(a)
  \/ \E a \in LookupActors : GetDashboardStats(a, 0)

SpecStaffOnly == InitClinic /\ [][NextStaffOnly]_vars

\* ---- store failures: one request at a time runs step by step and any of
\* its store calls may throw
OtherPet == PetData("Max", "cat", "pug", "2021-01-01", "A1")

NextFailure ==
  \/ Tick
  \/ \E a \in BookingActors : AptStart(1, a, ApptPayload(P1, T1, NoUser))
  \/ AptScanAppointments(1) \/ AptScanBlocks(1) \/ AptGetProfile(1) \/ AptGetPet(1)
  \/ AptSetRecord(1) \/ AptGetIndex(1) \/ AptSetIndex(1)
  \/ PetStart(1, "u1", OtherPet)
  \/ PetGetIndex(1) \/ PetMGet(1) \/ PetSetRecord(1) \/ PetGetIndexAfter(1) \/ PetSetIndex(1)
  \/ RecStart(1, "u1", [petId |-> P1])
  \/ RecSetRecord(1) \/ RecGetIndex(1) \/ RecSetIndex(1)
  \/ \E a \in BookingActors : DelStart(1, a, P1)
  \/ DelGetPet(1) \/ DelGetProfile(1) \/ DelRecord(1) \/ DelGetIndex(1) \/ DelSetIndex(1)
  \/ KvFail(1)

SpecFailure == InitClinic /\ [][NextFailure]_vars

\* ---- race: two bookings of u1 are handled at the same time
RaceTimes == {T1, T1 + 15, T1 + 60}

NextRace ==
  \/ Tick
  \/ \E r \in Slots, t \in RaceTimes : AptStart(r, "u1", ApptPayload(P1, t, NoUser))
  \/ \E r \in Slots : AptScanAppointments(r)
  \/ \E r \in Slots : AptScanBlocks(r)
  \/ \E r \in Slots : AptGetProfile(r)
  \/ \E r \in Slots : AptSetRecord(r)
  \/ \E r \in Slots : AptGetIndex(r)
  \/ \E r \in Slots : AptSetIndex(r)

SpecRace == InitClinic /\ [][NextRace]_vars

\* ---- booking screen: clients of both roles list the slots of a date in
\* three time zones and book one of them; the staff blocks the date
ClientDates == {10}
ClientActors == {"u1", "u2", Staff}
ClientSlots == UNION {generateSlots(d, tz) : d \in ClientDates, tz \in TimeZones}
ClientPayloads == {ApptPayload(P1, t, NoUser) : t \in ClientSlots}

NextClient ==
  \/ Tick
  \/ \E d \in ClientDates, tz \in TimeZones : GenerateSlots(d, tz)
  \/ \E a \in ClientActors, p \in ClientPayloads : BookSlot(a, p)
  \/ \E d \in ClientDates : CreateBlock(Staff, d)

SpecClient == InitClinic /\ [][NextClient]_vars

\* ---- appends: two creations of the same kind by u1 are handled at the same
\* time: two bookings an hour apart, two different pets, two health records
\* of pet P1
AppendTime(r) == T1 + 60 * (r - 1)
AppendPet(r) == IF r = 1 THEN OtherPet ELSE PetData("Tom", "cat", "manx", "2022-01-01", "B2")

\* the clinic sees creations of one kind only
OnlyKind(op) == \A r \in Slots : reqs[r].op \in {"none", op}

NextAppend ==
  \/ Tick
  \/ \E r \in Slots : /\ OnlyKind("createAppointment")
                      /\ AptStart(r, "u1", ApptPayload(P1, AppendTime(r), NoUser))
  \/ \E r \in Slots : \/ AptScanAppointments(r) \/ AptScanBlocks(r) \/ AptGetProfile(r)
                      \/ AptSetRecord(r) \/ AptGetIndex(r) \/ AptSetIndex(r)
  \/ \E r \in Slots : OnlyKind("createPet") /\ PetStart(r, "u1", AppendPet(r))
  \/ \E r \in Slots : \/ PetGetIndex(r) \/ PetMGet(r) \/ PetSetRecord(r)
                      \/ PetGetIndexAfter(r) \/ PetSetIndex(r)
  \/ \E r \in Slots : OnlyKind("createHealthRecord") /\ RecStart(r, "u1", [petId |-> P1])
  \/ \E r \in Slots : RecSetRecord(r) \/ RecGetIndex(r) \/ RecSetIndex(r)

SpecAppend == InitClinic /\ [][NextAppend]_vars

\* ---- edits: u1 registers a second pet, edits its pets and removes them
EditPayloads == {OtherPet, AppendPet(2), BasePet}

EditUpdates ==
  {PetData("Rex", "dog", "lab", "2020-01-01", NoStr),
   PetData(NoStr, NoStr, NoStr, NoStr, "A1"),
   PetData("Max", NoStr, NoStr, NoStr, NoStr)}

EditKeys == PetKeys \cup {P1}

NextEdit ==
  \/ Tick
  \/ \E pd \in EditPayloads : CreatePet("u1", pd)
  \/ \E k \in EditKeys, u \in EditUpdates : UpdatePet("u1", k, u)
  \/ \E k \in EditKeys : DeletePet("u1", k)

SpecEdit == InitClinic /\ [][NextEdit]_vars

\* ---- ids: u1 creates and edits appointments and pets with payloads that
\* carry an id field of their own
ForeignId == Now0 - 5

IdApptPayloads ==
  {ApptPayload(P1, T1, NoUser), [ApptPayload(P1, T1 + 60, NoUser) EXCEPT !.id = ForeignId]}

IdApptUpdates ==
  {ApptUpdate("cancelled", NoId, NoUser), [ApptUpdate(NoStr, NoId, NoUser) EXCEPT !.id = ForeignId]}

IdPetPayloads == {OtherPet, [AppendPet(2) EXCEPT !.id = P2]}

IdPetUpdates ==
  {PetData("Max", NoStr, NoStr, NoStr, NoStr),
   [PetData(NoStr, NoStr, NoStr, NoStr, NoStr) EXCEPT !.id = P2]}

NextIds ==
  \/ Tick
  \/ \E p \in IdApptPayloads : CreateAppointment("u1", p)
  \/ \E id \in ApptIds, u \in IdApptUpdates : UpdateAppointment("u1", id, u)
  \/ \E pd \in IdPetPayloads : CreatePet("u1", pd)
  \/ \E k \in EditKeys, u \in IdPetUpdates : UpdatePet("u1", k, u)

SpecIds == InitClinic /\ [][NextIds]_vars

Next ==
  \/ NextClient
  \/ NextAppend
  \/ NextEdit
  \/ NextIds
  \/ NextBooking \/ NextOwnership \/ NextPets \/ NextRegister \/ NextReminders
  \/ NextLookup \/ NextAccess \/ NextDashboard \/ NextInventory
  \/ NextReads \/ NextStaffOnly \/ NextFailure
  \/ NextRace

Spec == Init /\ [][Next]_vars

\* ======================================================= booking properties

\* C1: no two stored appointments that are not cancelled lie less than 30
\* minutes apart.
C1_NoTwoWithinBuffer ==
  \A a \in DOMAIN appts, b \in DOMAIN appts :
     (a # b /\ appts[a].status # "cancelled" /\ appts[b].status # "cancelled")
        => ~(/\ appts[a].dateTime - appts[b].dateTime < 30
             /\ appts[b].dateTime - appts[a].dateTime < 30)

NoBlockOn(t) == \A d \in DOMAIN blocks : blocks[d].date * 1440 > t \/ t >= (blocks[d].date + 1) * 1440

LiveWithin30(t) ==
  {k \in DOMAIN appts : /\ appts[k].status # "cancelled"
                        /\ appts[k].dateTime - t < 30
                        /\ t - appts[k].dateTime < 30}

\* C2: with no block on the candidate's date, createAppointment answers 409
\* exactly when a stored appointment that is not cancelled lies strictly less
\* than 30 minutes before or after the candidate.
C2_RejectedIffWithinBuffer ==
  [][\A a \in BookingActors, p \in BookingPayloads :
       (CreateAppointment(a, p) /\ NoBlockOn(p.dateTime))
          => ((resp'.code = 409) <=> (LiveWithin30(p.dateTime) # {}))]_vars

\* a creation was refused although no block exists at all
C2_Witness ==
  /\ resp.op = "createAppointment"
  /\ resp.code = 409
  /\ DOMAIN blocks = {}
  /\ \E k \in DOMAIN appts : appts[k].status = "pending"

\* the candidate times "on" a blocked date: those whose UTC date is the
\* block's date, and the slots the booking screen generates for that date
OnBlockedDate(t) ==
  \E d \in DOMAIN blocks :
     \/ (blocks[d].date * 1440 <= t /\ t < (blocks[d].date + 1) * 1440)
     \/ \E tz \in TimeZones : t \in generateSlots(blocks[d].date, tz)

\* C3: a createAppointment for a time on a date that carries a block,
\* generated slots included, is answered 409.
C3_BlockedDateRejects ==
  [][\A a \in BookingActors, p \in BookingPayloads :
       (CreateAppointment(a, p) /\ OnBlockedDate(p.dateTime)) => resp'.code = 409]_vars

CancelledWithin30(t) ==
  {k \in DOMAIN appts : /\ appts[k].status = "cancelled"
                        /\ appts[k].dateTime - t < 30
                        /\ t - appts[k].dateTime < 30}

C8_NoTraceOfCancelled ==
  \A k \in DOMAIN appts :
     appts[k].status = "cancelled"
        => /\ \A u \in Users : \A r \in getAppointmentReminders(u, now) :
                r.appointmentId # appts[k].id
           /\ k \notin missedAppointments(now)

C8_CancelledDoesNotReject ==
  \A a \in BookingActors, p \in BookingPayloads :
     (/\ CreateAppointment(a, p)
      /\ NoBlockOn(p.dateTime)
      /\ CancelledWithin30(p.dateTime) # {}
      /\ LiveWithin30(p.dateTime) = {})
        => resp'.code # 409

\* C8: a cancelled appointment does not make createAppointment answer 409,
\* gives no reminder and is not among the missed appointments.
C8_CancellationExclusion ==
  []C8_NoTraceOfCancelled /\ [][C8_CancelledDoesNotReject]_vars

\* a booking was accepted less than 30 minutes from a cancelled appointment
\* whose time lies inside the reminder window
C8_Witness ==
  /\ resp.op = "createAppointment"
  /\ resp.code = 200
  /\ \E k \in DOMAIN appts :
        /\ k # resp.apt
        /\ appts[k].status = "cancelled"
        /\ Abs(appts[k].dateTime - appts[resp.apt].dateTime) < 30
        /\ appts[k].dateTime - now <= 7 * 1440
        /\ appts[k].dateTime >= now

\* C9: an appointment that is cancelled is, after every step, still stored
\* and still cancelled (so still left out of the conflict check).
C9_CancelledForever ==
  [][\A k \in DOMAIN appts :
        appts[k].status = "cancelled"
           => (k \in DOMAIN appts' /\ appts'[k].status = "cancelled")]_vars

\* ===================================================== ownership properties

\* C4: a created appointment belongs to the pet's owner when staff book it
\* and to the actor when an owner books it, whatever the payload carries.
C4_OwnershipResolution ==
  [][\A a \in BookingActors, p \in OwnershipPayloads :
       (CreateAppointment(a, p) /\ resp'.code = 200)
          => /\ (profiles[a].role \in {"staff", "admin"} /\ p.petId \in DOMAIN pets)
                  => appts'[resp'.apt].userId = pets[p.petId].ownerId
             /\ profiles[a].role = "owner" => appts'[resp'.apt].userId = a]_vars

\* C6: each user's appointment index list holds exactly the ids of the
\* stored appointments whose userId is that user.
C6_AppointmentIndexExact ==
  \A u \in Users :
     SeqToSet(Get(aptIdx, u, <<>>)) = {k \in DOMAIN appts : appts[k].userId = u}

\* ========================================================== pet properties

\* C5: each user's pet index list holds exactly the ids of the stored pets
\* whose ownerId is that user.
C5_PetIndexExact ==
  \A u \in Users :
     SeqToSet(Get(petIdx, u, <<>>)) = {k \in DOMAIN pets : pets[k].ownerId = u}

\* C7: every health record, and every per-pet record list, refers to a pet
\* that is stored.
C7_NoOrphanedRecords ==
  /\ \A r \in DOMAIN recs : recs[r].petId \in DOMAIN pets
  /\ \A k \in DOMAIN recIdx : k \in DOMAIN pets

\* letters compared without regard to case
CaseClasses ==
  {{"Rex", "rex", "REX"}, {"Max"}, {"dog", "Dog"}, {"cat"}, {"lab", "Lab"}, {"pug"}}

SameIgnoringCase(x, y) == x = y \/ \E c \in CaseClasses : x \in c /\ y \in c

Matches(p, cand) ==
  \/ cand.microchipId # "" /\ p.microchipId = cand.microchipId
  \/ /\ SameIgnoringCase(p.name, cand.name)
     /\ SameIgnoringCase(p.species, cand.species)
     /\ SameIgnoringCase(p.breed, cand.breed)
     /\ p.dateOfBirth = cand.dateOfBirth

\* the pets the owner's list resolves to
ListedPets(u) == {pets[k] : k \in {x \in DOMAIN pets : \E i \in DOMAIN Get(petIdx, u, <<>>) : petIdx[u][i] = x}}

\* C10: createPet answers 409 with a matched pet and an unchanged store
\* exactly when a pet of the owner's list has the candidate's microchipId
\* (same case) or its name, species, breed (any case) and dateOfBirth;
\* otherwise the pet is stored.
C10_DuplicateDetection ==
  [][\A pd \in PetPayloads :
       CreatePet("u1", pd)
          => IF \E p \in ListedPets("u1") : Matches(p, pd)
             THEN /\ resp'.code = 409
                  /\ resp'.pet # {}
                  /\ \A p \in resp'.pet : p \in ListedPets("u1") /\ Matches(p, pd)
                  /\ pets' = pets
                  /\ petIdx' = petIdx
             ELSE /\ resp'.code = 200
                  /\ <<"u1", now>> \in DOMAIN pets'
                  /\ pets'[<<"u1", now>>].name = pd.name
                  /\ pets'[<<"u1", now>>].microchipId = pd.microchipId]_vars

\* a registration was refused with one of the owner's pets attached, while
\* the owner also holds a pet whose microchipId differs from it only by case
C10_Witness ==
  /\ resp.op = "createPet"
  /\ resp.code = 409
  /\ \E p \in resp.pet : p.microchipId = "A1" /\ p.name = "Rex" /\ p \in ListedPets("u1")
  /\ \E p \in ListedPets("u1") : p.microchipId = "a1"

\* ===================================================== reminder properties

\* the number of days the handler computes, told without Math.ceil: the least
\* d with d days >= t - now
DaysFromNow(t) ==
  CHOOSE d \in -40..40 : d * MinutesPerDay >= t - now /\ (d - 1) * MinutesPerDay < t - now

Listed(idx, u) == SeqToSet(Get(idx, u, <<>>))

\* what getReminders(u) must answer about appointments in the state it reads
C11_Exact(u) ==
  /\ \A id \in DOMAIN appts :
        (\E r \in out'.body : r.type = "appointment" /\ r.appointmentId = appts[id].id)
          <=> \E k \in Listed(aptIdx, u) \cap DOMAIN appts :
                 /\ appts[k].id = appts[id].id
                 /\ appts[k].status = "pending"
                 /\ <<"appointment", appts[k].id>> \notin Get(dismissed, u, {})
                 /\ DaysFromNow(appts[k].dateTime) \in 0..7
  /\ \A r \in out'.body :
        r.type = "appointment" =>
          /\ \E k \in Listed(aptIdx, u) \cap DOMAIN appts : appts[k].id = r.appointmentId
          /\ r.priority = IF DaysFromNow(r.dateTime) <= 1 THEN "high" ELSE "medium"
          /\ r.dateTime # now + 8 * Day
          /\ r.dateTime = now + Day => r.priority = "high"

\* C11: getReminders returns an appointment reminder for a exactly when a is
\* in the caller's appointment list, pending, not dismissed and 0 to 7 days
\* away (days rounded up); the priority is high up to 1 day and medium
\* beyond; 8 days ahead gives none, 1 day ahead gives high.
C11_AppointmentReminders == [][\A u \in Users : GetReminders(u) => C11_Exact(u)]_vars

\* u1 has read: a high reminder for the appointment one day ahead, and none for
\* the pending appointment more than seven days ahead
C11_Witness ==
  /\ out.op = "getReminders" /\ out.at = now
  /\ \E r \in out.body :
        r.type = "appointment" /\ r.dateTime = now + Day /\ r.priority = "high"
  /\ \E k \in Listed(aptIdx, out.actor) \cap DOMAIN appts :
        appts[k].status = "pending" /\ appts[k].dateTime > now + 7 * Day

\* what getReminders(u) must answer about vaccinations in the state it reads
C12_Exact(u) ==
  /\ \A id \in DOMAIN pets :
        (\E r \in out'.body : r.type = "vaccination" /\ r.petId = pets[id].id)
          <=> \E k \in Listed(petIdx, u) \cap DOMAIN pets :
                 /\ pets[k].id = pets[id].id
                 /\ pets[k].nextVaccinationDate # NoId
                 /\ <<"vaccination", pets[k].id, pets[k].nextVaccinationDate>>
                       \notin Get(dismissed, u, {})
                 /\ DaysFromNow(pets[k].nextVaccinationDate) \in -7..14
  /\ \A r \in out'.body :
        r.type = "vaccination" =>
          /\ \E k \in Listed(petIdx, u) \cap DOMAIN pets : pets[k].id = r.petId
          /\ r.priority = IF DaysFromNow(r.dateTime) <= 0 THEN "high" ELSE "medium"
          /\ r.dateTime # now + 15 * Day
          /\ r.dateTime # now - 8 * Day
          /\ r.dateTime = now + 14 * Day => r.priority = "medium"
          /\ r.dateTime = now - Day => r.priority = "high"

\* C12: getReminders returns a vaccination reminder for pet p exactly when p
\* is in the caller's pet list, has a nextVaccinationDate, is not dismissed
\* and the date is -7 to 14 days away (days rounded up); the priority is high
\* when the day count is 0 or less and medium otherwise; 15 days ahead and 8
\* days back give none, 14 days ahead gives medium, 1 day back gives high.
C12_VaccinationReminders == [][\A u \in Users : GetReminders(u) => C12_Exact(u)]_vars

\* the caller has read a high reminder for a vaccination that was due a day ago
C12_Witness ==
  /\ out.op = "getReminders" /\ out.at = now
  /\ \E r \in out.body :
        r.type = "vaccination" /\ r.dateTime = now - Day /\ r.priority = "high"

\* the dismissed vaccination hashes of u that name this pet with another date
StaleDismissals(u, pet) ==
  {h \in Get(dismissed, u, {}) :
     h[1] = "vaccination" /\ h[2] = pet.id /\ h[3] # pet.nextVaccinationDate}

C13_Suppressed(u) ==
  /\ \A r \in out'.body :
        /\ r.id \notin Get(dismissed, u, {})
        /\ r.type = "appointment" => r.id = <<"appointment", r.appointmentId>>
        /\ r.type = "vaccination" => r.id = <<"vaccination", r.petId, r.dateTime>>
  /\ \A k \in Listed(aptIdx, u) \cap DOMAIN appts :
        <<"appointment", appts[k].id>> \in Get(dismissed, u, {})
          => ~\E r \in out'.body : r.type = "appointment" /\ r.appointmentId = appts[k].id
  /\ \A k \in Listed(petIdx, u) \cap DOMAIN pets :
        (/\ StaleDismissals(u, pets[k]) # {}
         /\ pets[k].nextVaccinationDate # NoId
         /\ DaysFromNow(pets[k].nextVaccinationDate) \in -7..14
         /\ <<"vaccination", pets[k].id, pets[k].nextVaccinationDate>>
               \notin Get(dismissed, u, {}))
          => \E r \in out'.body : r.type = "vaccination" /\ r.petId = pets[k].id

\* C13: getReminders returns no reminder whose id is in the caller's dismissed
\* set; an appointment reminder's id is the appointment's id, a vaccination
\* reminder's id is made of the pet id and the vaccination date, so a
\* dismissed vaccination reminder comes back once the date has changed.
C13_DismissedSuppressed == [][\A u \in Users : GetReminders(u) => C13_Suppressed(u)]_vars

\* u1 dismissed the reminder of its appointment and the one for P1's earlier
\* vaccination date: the read leaves out the appointment, which is pending and
\* a day ahead, and brings the vaccination reminder for the new date
C13_Witness ==
  /\ out.op = "getReminders" /\ out.at = now
  /\ \E k \in Listed(aptIdx, out.actor) \cap DOMAIN appts :
        /\ appts[k].status = "pending"
        /\ DaysFromNow(appts[k].dateTime) \in 0..7
        /\ <<"appointment", appts[k].id>> \in Get(dismissed, out.actor, {})
        /\ ~\E r \in out.body : r.type = "appointment" /\ r.appointmentId = appts[k].id
  /\ \E k \in Listed(petIdx, out.actor) \cap DOMAIN pets :
        /\ StaleDismissals(out.actor, pets[k]) # {}
        /\ \E r \in out.body : r.type = "vaccination" /\ r.petId = pets[k].id

\* ================================================== appointment properties

\* C14: createAppointment with a petId that names no stored pet answers 404
\* and stores neither an appointment nor an index entry, whatever the actor's
\* role.
C14_UnknownPetRejected ==
  [][\A a \in LookupActors, p \in LookupPayloads :
        (CreateAppointment(a, p) /\ p.petId \notin DOMAIN pets)
          => (resp'.code = 404 /\ appts' = appts /\ aptIdx' = aptIdx)]_vars

\* C15: updateAppointment by an actor who is neither the appointment's userId
\* nor staff or admin answers 403 and leaves the record as it was; an id that
\* names no appointment answers 404 and nothing is written.
C15_UpdateRefused ==
  [][\A a \in LookupActors, id \in ApptIds, u \in AccessUpdates :
        UpdateAppointment(a, id, u) =>
          /\ (id \in DOMAIN appts /\ appts[id].userId # a /\ ~IsStaff(a))
                => (resp'.code = 403 /\ appts' = appts)
          /\ id \notin DOMAIN appts
                => (resp'.code = 404 /\ appts' = appts /\ aptIdx' = aptIdx)]_vars

\* C16: the status of every stored appointment is pending, approved,
\* completed or cancelled.
C16_StatusInEnum == \A k \in DOMAIN appts : appts[k].status \in Statuses

\* ===================================================== dashboard properties

\* the server-local midnight at or before now, told without setHours
LocalMidnight(tz) == CHOOSE m \in (now - Day + 1)..now : (m + tz) % Day = 0

\* C17 as stated: the this-week count of getDashboardStats is the number of
\* stored appointments with dateTime in [now - 7 days, now].
C17_WeekIsLastSevenDays ==
  [][\A a \in BookingActors, tz \in TimeZones :
        (GetDashboardStats(a, tz) /\ IsStaff(a)) =>
           out'.body.weekAppointments =
             Cardinality({k \in DOMAIN appts :
                            appts[k].dateTime >= now - 7 * Day /\ appts[k].dateTime <= now})]_vars

\* C17 amended: the this-week count of getDashboardStats is the number of
\* stored appointments with dateTime from seven days before the server-local
\* midnight that began today up to now.
C17_WeekFromMidnight ==
  [][\A a \in BookingActors, tz \in TimeZones :
        (GetDashboardStats(a, tz) /\ IsStaff(a)) =>
           out'.body.weekAppointments =
             Cardinality({k \in DOMAIN appts :
                            /\ appts[k].dateTime >= LocalMidnight(tz) - 7 * Day
                            /\ appts[k].dateTime <= now})]_vars

\* the staff member has read a week count that includes an appointment more
\* than seven days before now
C17_Witness ==
  /\ out.op = "getDashboardStats" /\ out.at = now /\ resp.code = 200
  /\ DOMAIN appts # {}
  /\ out.body.weekAppointments = Cardinality(DOMAIN appts)
  /\ \E k \in DOMAIN appts : appts[k].dateTime < now - 7 * Day

\* C18: listPets(all) returns exactly the stored pet records and totalPets is
\* their number; no record list kept under a key that begins with the pet
\* prefix is returned or counted.
C18_OnlyPetsListedAndCounted ==
  [][\A a \in BookingActors :
        /\ (ListAllPets(a) /\ IsStaff(a)) => out'.body = {<<"pet", k>> : k \in DOMAIN pets}
        /\ (GetDashboardStats(a, 0) /\ IsStaff(a))
             => out'.body.totalPets = Cardinality(DOMAIN pets)]_vars

\* ========================================================= read properties
store == <<profiles, pets, petIdx, appts, aptIdx, blocks, recs, recIdx, dismissed>>

\* a step of one of the six reads
ReadStep(a) ==
  \/ ListPets(a) \/ ListAppointments(a) \/ ListBlocks(a)
  \/ GetHealthRecords(a, P1) \/ GetReminders(a) \/ GetDashboardStats(a, 0)

\* what the six reads answer to actor a in the current state
ReadResult(op, a) ==
  CASE op = "listPets" -> MGet(pets, Get(petIdx, a, <<>>))
    [] op = "listAppointments" -> MGet(appts, Get(aptIdx, a, <<>>))
    [] op = "listBlocks" -> IF IsStaff(a) THEN Values(blocks) ELSE NoBody
    [] op = "getHealthRecords" ->
         IF PetAccessCode(a, P1) = 200 THEN MGet(recs, Get(recIdx, P1, <<>>)) ELSE NoBody
    [] op = "getReminders" -> getReminders(a, now)
    [] op = "getDashboardStats" -> IF IsStaff(a) THEN stats(now, 0) ELSE NoBody

SixReads ==
  {"listPets", "listAppointments", "listBlocks", "getHealthRecords", "getReminders",
   "getDashboardStats"}

\* the latest request was one of the six reads, made at the present now: the
\* same read by the same actor answers what was answered
C19_SameAnswer ==
  (out.op \in SixReads /\ resp.op = out.op /\ out.at = now)
     => ReadResult(out.op, out.actor) = out.body

C19_StoreKept == (\E a \in BookingActors : ReadStep(a)) => store' = store

C20_Refused(op) ==
  /\ resp' = Resp(op, 403)
  /\ store' = store
  /\ out'.body = NoBody

\* C20: an actor who is not staff or admin gets 403 from listPets(all),
\* listAppointments(all), createBlock, listBlocks, deleteBlock and
\* getDashboardStats; the store stays as it is and no record is returned.
C20_StaffOnly ==
  [][\A a \in LookupActors :
        (a \notin DOMAIN profiles \/ profiles[a].role \notin {"staff", "admin"}) =>
          /\ ListAllPets(a) => C20_Refused("listAllPets")
          /\ ListAllAppointments(a) => C20_Refused("listAllAppointments")
          /\ CreateBlock(a, 11) => C20_Refused("createBlock")
          /\ ListBlocks(a) => C20_Refused("listBlocks")
          /\ DeleteBlock(a, <<"block", 11>>) => C20_Refused("deleteBlock")
          /\ GetDashboardStats(a, 0) => C20_Refused("getDashboardStats")]_vars

\* an owner has just been refused the deletion of a block that is stored
C20_Witness ==
  /\ resp = Resp("deleteBlock", 403)
  /\ blocks # <<>>

\* ============================================= failure and race properties
AllListed(idx) == UNION {SeqToSet(idx[k]) : k \in DOMAIN idx}

\* every record is in an index list and every index entry names a record
NoPartialUpdate ==
  /\ DOMAIN appts = AllListed(aptIdx)
  /\ DOMAIN pets = AllListed(petIdx)
  /\ DOMAIN recs = AllListed(recIdx)

Quiescent == \A r \in Slots : reqs[r].pc \in {"idle", "done"}

\* C21: when a store call fails inside createPet, createAppointment,
\* createHealthRecord or deletePet, the operation ends either in success with
\* record and index both written, or in failure with no record lacking its
\* index entry and no index entry lacking its record.
C21_AllOrNothing == Quiescent => NoPartialUpdate

Succeeded(r, op) == reqs[r].op = op /\ reqs[r].pc = "done" /\ reqs[r].code = 200

\* C22: a createAppointment that answers success has stored one new record
\* under an id no stored appointment had, and no other creation touches that
\* record, also when two creations are handled in the same millisecond.
C22_OwnRecordKept ==
  \A r \in Slots :
     Succeeded(r, "createAppointment")
        => (reqs[r].id \in DOMAIN appts /\ appts[reqs[r].id] = AptRecord(reqs[r]))

\* two bookings less than 30 minutes apart, each of which scanned the
\* appointments before the other had written its record
Raced(r1, r2) ==
  /\ r1 # r2
  /\ reqs[r1].op = "createAppointment" /\ reqs[r2].op = "createAppointment"
  /\ reqs[r1].pc = "done" /\ reqs[r2].pc = "done"
  /\ reqs[r1].id # reqs[r2].id
  /\ Abs(reqs[r1].arg.dateTime - reqs[r2].arg.dateTime) < 30
  /\ reqs[r1].seenAppts = <<>> /\ reqs[r2].seenAppts = <<>>

BothStored(r1, r2) ==
  /\ reqs[r1].code = 200 /\ reqs[r2].code = 200
  /\ {reqs[r1].id, reqs[r2].id} \subseteq DOMAIN appts
  /\ appts[reqs[r1].id].status # "cancelled" /\ appts[reqs[r2].id].status # "cancelled"
  /\ Abs(appts[reqs[r1].id].dateTime - appts[reqs[r2].id].dateTime) < 30

\* C24: two createAppointment requests for times less than 30 minutes apart
\* that both scan before either writes both pass the conflict check and both
\* answer success, and two non-cancelled appointments less than 30 minutes
\* apart are stored.
C24_RaceBreaksBuffer == \A r1 \in Slots, r2 \in Slots : Raced(r1, r2) => BothStored(r1, r2)

\* the interleaving has happened
C24_Witness == \E r1 \in Slots, r2 \in Slots : Raced(r1, r2) /\ BothStored(r1, r2)

\* ======================================================== client properties
\* C23: the slots listed for a date are the 16 instants 09:00, 09:30, ...,
\* 16:30 of that date, whatever else holds: the list is fixed by the date.
C23_SixteenSlotsOfDate ==
  out.op = "generateSlots"
     => out.body = {out.at * MinutesPerDay + startHour * 60 + 30 * i : i \in 0..15}

\* C28: for a client of either role with current data, a slot the screen
\* marks available is not answered 409 and a slot it marks unavailable is.
C28_ClientAgrees ==
  [][\A a \in ClientActors, p \in ClientPayloads :
       BookSlot(a, p) => (isSlotAvailable(a, p.dateTime) <=> resp'.code # 409)]_vars

\* ========================================================= append properties
Creates == {"createAppointment", "createPet", "createHealthRecord"}

\* the index list a creation appends to, as stored now
IndexList(q) ==
  IF q.op = "createAppointment" THEN Get(aptIdx, q.owner, <<>>)
  ELSE IF q.op = "createPet" THEN Get(petIdx, q.actor, <<>>)
  ELSE Get(recIdx, q.arg.petId, <<>>)

\* two creations of one kind with different ids have both answered success,
\* and each read the index list before the other wrote it
BothAppended(r1, r2) ==
  /\ r1 # r2
  /\ reqs[r1].op \in Creates /\ reqs[r2].op = reqs[r1].op
  /\ reqs[r1].pc = "done" /\ reqs[r1].code = 200
  /\ reqs[r2].pc = "done" /\ reqs[r2].code = 200
  /\ reqs[r1].id # reqs[r2].id
  /\ reqs[r2].id \notin SeqToSet(reqs[r1].seenIdx)
  /\ reqs[r1].id \notin SeqToSet(reqs[r2].seenIdx)

OneIdKept(r1, r2) ==
  Cardinality({reqs[r1].id, reqs[r2].id} \cap SeqToSet(IndexList(reqs[r1]))) = 1

\* C25: when two creations that append to the same index list both read the
\* list before either writes it, both answer success and the list ends with
\* only one of the two new ids.
C25_AppendLost ==
  \A r1 \in Slots, r2 \in Slots : BothAppended(r1, r2) => OneIdKept(r1, r2)

\* the lost append has happened, here for two pets of one user
C25_Witness ==
  \E r1 \in Slots, r2 \in Slots :
     BothAppended(r1, r2) /\ reqs[r1].op = "createPet" /\ OneIdKept(r1, r2)

C25_WitnessAppointments ==
  \E r1 \in Slots, r2 \in Slots :
     BothAppended(r1, r2) /\ reqs[r1].op = "createAppointment" /\ OneIdKept(r1, r2)

C25_WitnessRecords ==
  \E r1 \in Slots, r2 \in Slots :
     BothAppended(r1, r2) /\ reqs[r1].op = "createHealthRecord" /\ OneIdKept(r1, r2)

\* ========================================================== block properties
DeleteKeys == {<<"block", d>> : d \in BlockDates} \cup {<<"appointment", id>> : id \in ApptIds}

\* C26: deleteBlock removes at most one block record and changes no user,
\* pet, appointment or health record and no index list, whatever the value
\* of its block id parameter.
C26_DeleteBlockFrame ==
  [][\A a \in BookingActors, key \in DeleteKeys :
       DeleteBlock(a, key)
          => /\ Cardinality(DOMAIN blocks \ DOMAIN blocks') <= 1
             /\ \A d \in DOMAIN blocks' : d \in DOMAIN blocks /\ blocks'[d] = blocks[d]
             /\ UNCHANGED <<profiles, pets, appts, recs, petIdx, aptIdx, recIdx>>]_vars

\* C27: no stored appointment that is not cancelled has a dateTime on a
\* calendar date that carries a block.
C27_NoAppointmentOnBlockedDate ==
  \A k \in DOMAIN appts : appts[k].status # "cancelled" => ~ blocked(appts[k].dateTime)

\* =========================================================== edit properties
\* C29: no owner has two stored pets that the duplicate check of createPet
\* matches with each other.
C29_NoDuplicatePets ==
  \A k1 \in DOMAIN pets, k2 \in DOMAIN pets :
     (k1 # k2 /\ pets[k1].ownerId = pets[k2].ownerId) => ~ isDuplicate(pets[k1], pets[k2])

\* C30: the id field of every stored pet and of every stored appointment is
\* the key it is stored under.
C30_IdIsKey ==
  /\ \A k \in DOMAIN pets : pets[k].id = k
  /\ \A k \in DOMAIN appts : appts[k].id = k
====
